---- MODULE Spec2Model ----
(***************************************************************************)
(* Model of the invoicing dashboard's data-access and mutation layer:      *)
(* the form actions of app/lib/actions.ts (createInvoice, updateInvoice,   *)
(* deleteInvoice, authenticate) and the queries of the two data modules    *)
(* (fetchFilteredInvoices, fetchInvoicesPages, fetchInvoiceById,           *)
(* fetchCardData, fetchRevenue).                                           *)
(*                                                                         *)
(* Strings are TLA+ strings; Chars gives the characters of every string    *)
(* the model uses, so that substring search, case folding and number       *)
(* parsing are computed character by character.  A JavaScript number that  *)
(* a decimal literal with at most two fraction digits denotes is kept as   *)
(* its count of hundredths h (the double nearest h/100).                   *)
(***************************************************************************)
EXTENDS Integers, Sequences, FiniteSets, TLC

VARIABLES
    invoices,       \* the Invoice table: a set of rows
    nextId,         \* the id the store gives the next created row
    calls,          \* the mutation calls in flight, one record per slot
    ncalls,         \* number of action/query calls started so far
    writes,         \* number of store writes that succeeded
    revalidations,  \* number of revalidatePath("/dashboard/invoices") calls
    redirects,      \* number of redirect("/dashboard/invoices") calls
    last,           \* what the step just taken returned to its caller
    listing,        \* a client's paging through one query's result
    revenue         \* the Revenue table: a set of rows

vars == <<invoices, nextId, calls, ncalls, writes, revalidations, redirects,
          last, listing, revenue>>

(***************************************************************************)
(* Bounds of the model.                                                    *)
(***************************************************************************)
MaxCalls == 2

\* The highest page number a client asks fetchFilteredInvoices for.
MaxPage == 2

(***************************************************************************)
(* Strings.                                                                *)
(***************************************************************************)
Null == "<null>"

Chars ==
    ("" :> <<>>)
    @@ ("-5" :> <<"-", "5">>)
    @@ ("30" :> <<"3", "0">>)
    @@ ("19.99" :> <<"1", "9", ".", "9", "9">>)
    @@ ("abc" :> <<"a", "b", "c">>)
    @@ ("pend" :> <<"p", "e", "n", "d">>)
    @@ ("PAID" :> <<"P", "A", "I", "D">>)
    @@ ("am" :> <<"a", "m">>)
    @@ ("zz" :> <<"z", "z">>)
    @@ ("2024-01-01" :> <<"2", "0", "2", "4", "-", "0", "1", "-", "0", "1">>)
    @@ ("2024-01-02" :> <<"2", "0", "2", "4", "-", "0", "1", "-", "0", "2">>)
    @@ ("2024-01-03" :> <<"2", "0", "2", "4", "-", "0", "1", "-", "0", "3">>)
    @@ ("2024-01-04" :> <<"2", "0", "2", "4", "-", "0", "1", "-", "0", "4">>)
    @@ ("Amy Penn" :> <<"A", "m", "y", " ", "P", "e", "n", "n">>)
    @@ ("Bo" :> <<"B", "o">>)
    @@ ("amy@a.io" :> <<"a", "m", "y", "@", "a", ".", "i", "o">>)
    @@ ("bo30@b.io" :> <<"b", "o", "3", "0", "@", "b", ".", "i", "o">>)
    @@ ("pending" :> <<"p", "e", "n", "d", "i", "n", "g">>)
    @@ ("paid" :> <<"p", "a", "i", "d">>)
    @@ ("draft" :> <<"d", "r", "a", "f", "t">>)
    @@ ("c1" :> <<"c", "1">>)
    @@ ("c2" :> <<"c", "2">>)
    @@ ("c9" :> <<"c", "9">>)
    @@ ("CredentialsSignin" :> <<"C", "r", "e", "d", "e", "n", "t", "i", "a", "l", "s", "S", "i", "g", "n", "i", "n">>)
    @@ ("Sign in failed: CredentialsSignin." :> <<"S", "i", "g", "n", " ", "i", "n", " ", "f", "a", "i", "l", "e", "d", ":", " ", "C", "r", "e", "d", "e", "n", "t", "i", "a", "l", "s", "S", "i", "g", "n", "i", "n", ".">>)
    @@ ("credentialssignin" :> <<"c", "r", "e", "d", "e", "n", "t", "i", "a", "l", "s", "s", "i", "g", "n", "i", "n">>)
    @@ ("CredentialSignin" :> <<"C", "r", "e", "d", "e", "n", "t", "i", "a", "l", "S", "i", "g", "n", "i", "n">>)
    @@ ("NEXT_REDIRECT" :> <<"N", "E", "X", "T", "_", "R", "E", "D", "I", "R", "E", "C", "T">>)
    @@ ("CallbackRouteError" :> <<"C", "a", "l", "l", "b", "a", "c", "k", "R", "o", "u", "t", "e", "E", "r", "r", "o", "r">>)

Upper == <<"A", "B", "C", "D", "E", "F", "G", "H", "I", "J", "K", "L", "M",
           "N", "O", "P", "Q", "R", "S", "T", "U", "V", "W", "X", "Y", "Z">>

LowerLetters == <<"a", "b", "c", "d", "e", "f", "g", "h", "i", "j", "k", "l", "m",
                  "n", "o", "p", "q", "r", "s", "t", "u", "v", "w", "x", "y", "z">>

\* Case folding of one character, as a case-insensitive match folds it.
Lower(c) ==
    IF \E i \in 1..26 : Upper[i] = c
    THEN LowerLetters[CHOOSE i \in 1..26 : Upper[i] = c]
    ELSE c

LowerSeq(cs) == [i \in 1..Len(cs) |-> Lower(cs[i])]

\* needle occurs in hay (both character sequences).
IsSubstring(needle, hay) ==
    \E k \in 0..(Len(hay) - Len(needle)) :
        \A i \in 1..Len(needle) : hay[k + i] = needle[i]

\* Prisma's { contains: q, mode: "insensitive" }: ILIKE '%q%'.
ContainsInsensitive(field, q) ==
    IsSubstring(LowerSeq(Chars[q]), LowerSeq(Chars[field]))

Digits == <<"0", "1", "2", "3", "4", "5", "6", "7", "8", "9">>

IsDigit(c) == \E i \in 1..10 : Digits[i] = c

DigitVal(c) == (CHOOSE i \in 1..10 : Digits[i] = c) - 1

\* Order of the characters of a date column value (ASCII: '-' before digits).
CharCode(c) == IF c = "-" THEN 45 ELSE IF IsDigit(c) THEN 48 + DigitVal(c) ELSE 127

\* a < b as the store compares two strings of equal length (ISO dates).
StrLess(a, b) ==
    LET ca == Chars[a]
        cb == Chars[b]
    IN  \E k \in 1..Len(ca) :
            /\ k <= Len(cb)
            /\ \A i \in 1..(k - 1) : ca[i] = cb[i]
            /\ CharCode(ca[k]) < CharCode(cb[k])

(***************************************************************************)
(* Numbers.  Num(h) is the double nearest h/100; NaN is not-a-number.      *)
(***************************************************************************)
Num(h) == [nan |-> FALSE, h |-> h]

NaN == [nan |-> TRUE, h |-> 0]

RECURSIVE DigitsValue(_)
DigitsValue(cs) ==
    IF cs = <<>> THEN 0
    ELSE 10 * DigitsValue(SubSeq(cs, 1, Len(cs) - 1)) + DigitVal(cs[Len(cs)])

AllDigits(cs) == \A i \in 1..Len(cs) : IsDigit(cs[i])

\* An unsigned decimal literal: digits, optionally a point and at most two
\* fraction digits (the forms the model's strings take).
UnsignedValue(cs) ==
    LET dots == {i \in 1..Len(cs) : cs[i] = "."}
    IN  IF dots = {}
        THEN IF cs # <<>> /\ AllDigits(cs) THEN Num(100 * DigitsValue(cs)) ELSE NaN
        ELSE LET d  == CHOOSE i \in dots : TRUE
                 ip == SubSeq(cs, 1, d - 1)
                 fp == SubSeq(cs, d + 1, Len(cs))
             IN  IF /\ Cardinality(dots) = 1
                    /\ AllDigits(ip) /\ AllDigits(fp)
                    /\ Len(ip) + Len(fp) > 0
                    /\ Len(fp) <= 2
                 THEN Num(100 * DigitsValue(ip)
                          + (IF Len(fp) = 1 THEN 10 ELSE 1) * DigitsValue(fp))
                 ELSE NaN

\* JavaScript Number(string): the empty string is 0, a signed decimal
\* literal is its value, anything else (of the model's strings) is NaN.
StringToNumber(cs) ==
    IF cs = <<>> THEN Num(0)
    ELSE IF cs[1] = "-"
         THEN LET v == UnsignedValue(Tail(cs))
              IN  IF v.nan THEN NaN ELSE Num(0 - v.h)
         ELSE IF cs[1] = "+" THEN UnsignedValue(Tail(cs))
         ELSE UnsignedValue(cs)

\* Number(v) of a form value: Number(null) is 0.
ToNumber(v) == IF v = Null THEN Num(0) ELSE StringToNumber(Chars[v])

RECURSIVE FloorLog2(_, _)
\* floor(log2(num/den)) for num, den > 0.
FloorLog2(num, den) ==
    IF num >= 2 * den THEN 1 + FloorLog2(num, 2 * den)
    ELSE IF num < den THEN FloorLog2(2 * num, den) - 1
    ELSE 0

RECURSIVE Pow2Mod100(_)
Pow2Mod100(k) == IF k = 0 THEN 1 ELSE (2 * Pow2Mod100(k - 1)) % 100

IsPow2(n) == \E e \in 0..30 : 2^e = n

\* x * 100 in IEEE-754 double arithmetic, for x the double nearest h/100,
\* h > 0.  The exact product of the double and 100 is h + r / 2^k, where
\* k = 52 - floor(log2(h/100)) and r is the parse error of h/100 scaled by
\* 100 * 2^k, |r| < 50; rounding it to 53 bits gives h itself or a
\* neighbouring double.  ulp is the number of units in the last place by
\* which the result differs from the integer h (0: the result is h).
TimesHundredPositive(h) ==
    LET e1 == FloorLog2(h, 100)
        t  == ((h % 100) * Pow2Mod100(52 - e1)) % 100
        r  == IF t <= 50 THEN 0 - t ELSE 100 - t
        e2 == FloorLog2(h, 1) - (IF IsPow2(h) /\ r < 0 THEN 1 ELSE 0)
        s  == e2 - e1
        a  == IF r < 0 THEN 0 - r ELSE r
        q0 == a \div (2^s)
        rm == a % (2^s)
        q  == IF 2 * rm > 2^s \/ (2 * rm = 2^s /\ q0 % 2 = 1) THEN q0 + 1 ELSE q0
    IN  [cents |-> h, ulp |-> IF r < 0 THEN 0 - q ELSE q]

\* x * 100 for any x: 0 * 100 is 0, and the product is odd in x.
TimesHundred(h) ==
    IF h = 0 THEN [cents |-> 0, ulp |-> 0]
    ELSE IF h > 0 THEN TimesHundredPositive(h)
    ELSE LET p == TimesHundredPositive(0 - h)
         IN  [cents |-> 0 - p.cents, ulp |-> 0 - p.ulp]

\* cents / 100 in double arithmetic: a division is correctly rounded, so
\* the result is the double nearest cents/100, the one Num(cents) denotes.
DivHundred(cents) == Num(cents)

(***************************************************************************)
(* The store: customers are seeded and never change; invoices are rows     *)
(* [id, customer_id, amount (cents), status, date].                        *)
(***************************************************************************)
Customers ==
    { [id |-> "c1", name |-> "Amy Penn", email |-> "amy@a.io"],
      [id |-> "c2", name |-> "Bo", email |-> "bo30@b.io"] }

CustomerIds == {c.id : c \in Customers}

CustomerOf(row) == CHOOSE c \in Customers : c.id = row.customer_id

Ids(rows) == {r.id : r \in rows}

RowById(rows, id) == CHOOSE r \in rows : r.id = id

\* The invoices the seed script leaves in the main specification's store.
SeedInvoices ==
    { [id |-> 1, customer_id |-> "c1", amount |-> 30, status |-> "pending",
       date |-> "2024-01-01"],
      [id |-> 2, customer_id |-> "c2", amount |-> 2050, status |-> "paid",
       date |-> "2024-01-02"] }

\* An id that never names a row.
MissingId == 0

\* The day the model's createInvoice calls run on.
Today == "2024-01-03"

\* Invoice.amount is an integer column: the client rejects a number that is
\* not an integer.
AmountColumnAccepts(amount) == amount.ulp = 0

\* Invoice.customer_id is a foreign key to Customer.
ForeignKeyHolds(customer_id) == customer_id \in CustomerIds

\* Outcome of prisma.invoice.create({data}): "ok" or the error it throws.
CreateResult(rows, data) ==
    IF ~AmountColumnAccepts(data.amount) THEN "type"
    ELSE IF ~ForeignKeyHolds(data.customer_id) THEN "fk"
    ELSE "ok"

\* As UpdateResult, but a where that matches no row is no error (updateMany,
\* SQL UPDATE ... WHERE).
UpdateResultNoRowOk(rows, id, data) ==
    IF ~AmountColumnAccepts(data.amount) THEN "type"
    ELSE IF ~ForeignKeyHolds(data.customer_id) THEN "fk"
    ELSE "ok"

\* Outcome of prisma.invoice.update({where: {id}, data}): update throws when
\* no row has the id.
UpdateResult(rows, id, data) ==
    IF ~AmountColumnAccepts(data.amount) THEN "type"
    ELSE IF id \notin Ids(rows) THEN "notfound"
    ELSE IF ~ForeignKeyHolds(data.customer_id) THEN "fk"
    ELSE "ok"

\* As DeleteResult, but deleting no row is no error (SQL DELETE ... WHERE).
DeleteResultNoRowOk(rows, id) == "ok"

\* Outcome of prisma.invoice.delete({where: {id}}): delete throws when no
\* row has the id.
DeleteResult(rows, id) == IF id \notin Ids(rows) THEN "notfound" ELSE "ok"

(***************************************************************************)
(* Validation: CreateInvoice / UpdateInvoice = InvoiceSchema without id    *)
(* and date, applied with safeParse; errors are flatten().fieldErrors.     *)
(***************************************************************************)
StatusEnum == {"pending", "paid"}

CustomerMsg == "Please select a customer."

AmountMsg == "Please enter an amount greater than $0."

NanMsg == "Expected number, received nan"

StatusMsg == "Please select an invoice status."

\* zod's message for a string outside the enum (it ends with the value received).
EnumMsg == "Invalid enum value. Expected 'pending' | 'paid'"

\* customer_id: z.string({invalid_type_error})
CustomerIdErrors(v) == IF v = Null THEN <<CustomerMsg>> ELSE <<>>

\* As AmountErrors with gte(0) for gt(0).
AmountErrorsGte(v) ==
    LET n == ToNumber(v)
    IN  IF n.nan THEN <<NanMsg>>
        ELSE IF ~(n.h >= 0) THEN <<AmountMsg>>
        ELSE <<>>

\* As AmountErrors without the gt(0) check.
AmountErrorsNoBound(v) == IF ToNumber(v).nan THEN <<NanMsg>> ELSE <<>>

\* amount: z.coerce.number().gt(0, {message})
AmountErrors(v) ==
    LET n == ToNumber(v)
    IN  IF n.nan THEN <<NanMsg>>
        ELSE IF ~(n.h > 0) THEN <<AmountMsg>>
        ELSE <<>>

\* As StatusErrors with z.string() for z.enum().
StatusErrorsAnyString(v) == IF v = Null THEN <<StatusMsg>> ELSE <<>>

\* status: z.enum(["pending", "paid"], {invalid_type_error})
StatusErrors(v) ==
    IF v = Null THEN <<StatusMsg>>
    ELSE IF v \notin StatusEnum THEN <<EnumMsg>>
    ELSE <<>>

NoErrors == [customer_id |-> <<>>, amount |-> <<>>, status |-> <<>>]

\* safeParse of {customer_id, amount, status}: every field is checked.
SafeParse(form) ==
    LET errs == [customer_id |-> CustomerIdErrors(form.customer_id),
                 amount      |-> AmountErrors(form.amount),
                 status      |-> StatusErrors(form.status)]
    IN  [success |-> errs = NoErrors,
         errors  |-> errs,
         data    |-> [customer_id |-> form.customer_id,
                      amount      |-> ToNumber(form.amount),
                      status      |-> form.status]]

(***************************************************************************)
(* What an action returns to its caller.                                   *)
(***************************************************************************)
\* {errors, message}: the State a form action returns.
StateRet(errors, message) == [kind |-> "state", errors |-> errors, message |-> message]

\* redirect() transfers control: the action does not return a State.
RedirectRet == [kind |-> "redirect", errors |-> NoErrors, message |-> "/dashboard/invoices"]

\* deleteInvoice's success path returns undefined.
VoidRet == [kind |-> "void", errors |-> NoErrors, message |-> ""]

CreateValidationMsg == "Missing Fields. Failed to Create Invoice."

UpdateValidationMsg == "Missing Fields. Failed to Update Invoice."

CreateDbMsg == "Database Error: Failed to Create Invoice."

UpdateDbMsg == "Database Error: Failed to Update Invoice."

DeleteDbMsg == "Database Error: Failed to Delete Invoice."

(***************************************************************************)
(* Calls.  A form action runs up to its await of the store in one step     *)
(* (Begin), the store executes the single statement in one step, and the   *)
(* code after the await runs in a last step; calls of different requests   *)
(* interleave between these steps.                                         *)
(***************************************************************************)
Slots == 1..MaxCalls

NoForm == [customer_id |-> Null, amount |-> Null, status |-> Null]

NoData == [customer_id |-> Null, amount |-> [cents |-> 0, ulp |-> 0],
           status |-> Null, date |-> ""]

Idle == [pc |-> "idle", op |-> "none", id |-> MissingId, form |-> NoForm,
         data |-> NoData, dbres |-> "none", trace |-> <<>>, newId |-> MissingId,
         peers |-> {}]

NoEvent == [ev |-> "none"]

ReturnEvent(c, ret, trace) ==
    [ev |-> "return", op |-> c.op, id |-> c.id, form |-> c.form,
     dbres |-> c.dbres, newId |-> c.newId, peers |-> c.peers,
     ret |-> ret, trace |-> trace]

\* Every form input of the model: formData.get(...) of each field (null for
\* a field the form does not carry).
AllForms ==
    [customer_id : {Null, "c1"},
     amount      : {Null, "-5", "abc", "30", "19.99"},
     status      : {Null, "draft", "pending", "paid"}]

Form(c, a, st) == [customer_id |-> c, amount |-> a, status |-> st]

\* The form inputs of the calls that run concurrently.
Forms ==
    { Form("c1", "30", "pending"), Form("c2", "30", "paid"),
      Form("c2", "19.99", "pending"), Form("c9", "30", "paid"),
      Form("c1", Null, "pending"), Form("c1", "30", "draft") }

\* The ids the model passes to updateInvoice, deleteInvoice, fetchInvoiceById.
IdInputs == Ids(invoices) \cup {MissingId}

HasIdleSlot == \E s \in Slots : calls[s].pc = "idle"

FreeSlot == CHOOSE s \in Slots :
                /\ calls[s].pc = "idle"
                /\ \A t \in Slots : t < s => calls[t].pc # "idle"

\* The customers of the createInvoice calls in flight.
CreatesInFlight == {calls[s].data.customer_id : s \in {t \in Slots : calls[t].op = "create"}}

\* const amountInCents = amount * 100
AmountInCents(amount) == TimesHundred(amount.h)

\* createInvoice up to `await prisma.invoice.create`.
CreateInvoice(form) ==
    /\ ncalls < MaxCalls
    /\ HasIdleSlot
    /\ LET v == SafeParse(form)
           c == [Idle EXCEPT !.op = "create", !.form = form, !.trace = <<"validate">>]
       IN  IF ~v.success
           THEN /\ last' = ReturnEvent(c, StateRet(v.errors, CreateValidationMsg), c.trace)
                /\ UNCHANGED calls
           ELSE /\ calls' = [s \in Slots |->
                      IF s = FreeSlot
                      THEN [c EXCEPT !.pc = "store",
                                     !.data = [customer_id |-> v.data.customer_id,
                                               amount      |-> AmountInCents(v.data.amount),
                                               status      |-> v.data.status,
                                               date        |-> Today],
                                     !.peers = CreatesInFlight]
                      ELSE IF calls[s].op = "create"
                           THEN [calls[s] EXCEPT !.peers = @ \cup {v.data.customer_id}]
                           ELSE calls[s]]
                /\ last' = NoEvent
    /\ ncalls' = ncalls + 1
    /\ UNCHANGED <<invoices, nextId, writes, revalidations, redirects, listing, revenue>>

\* updateInvoice up to `await prisma.invoice.update`.
UpdateInvoice(id, form) ==
    /\ ncalls < MaxCalls
    /\ HasIdleSlot
    /\ LET v == SafeParse(form)
           c == [Idle EXCEPT !.op = "update", !.id = id, !.form = form,
                             !.trace = <<"validate">>]
       IN  IF ~v.success
           THEN /\ last' = ReturnEvent(c, StateRet(v.errors, UpdateValidationMsg), c.trace)
                /\ UNCHANGED calls
           ELSE /\ calls' = [calls EXCEPT ![FreeSlot] =
                      [c EXCEPT !.pc = "store",
                                !.data = [customer_id |-> v.data.customer_id,
                                          amount      |-> AmountInCents(v.data.amount),
                                          status      |-> v.data.status,
                                          date        |-> ""]]]
                /\ last' = NoEvent
    /\ ncalls' = ncalls + 1
    /\ UNCHANGED <<invoices, nextId, writes, revalidations, redirects, listing, revenue>>

\* deleteInvoice up to `await prisma.invoice.delete`.
DeleteInvoice(id) ==
    /\ ncalls < MaxCalls
    /\ HasIdleSlot
    /\ calls' = [calls EXCEPT ![FreeSlot] =
                    [Idle EXCEPT !.pc = "store", !.op = "delete", !.id = id]]
    /\ last' = NoEvent
    /\ ncalls' = ncalls + 1
    /\ UNCHANGED <<invoices, nextId, writes, revalidations, redirects, listing, revenue>>

\* The store executes create: one row is added, or the call throws.
StoreCreate(s) ==
    /\ calls[s].pc = "store"
    /\ calls[s].op = "create"
    /\ LET d   == calls[s].data
           res == CreateResult(invoices, d)
       IN  IF res = "ok"
           THEN /\ invoices' = invoices \cup
                       {[id |-> nextId, customer_id |-> d.customer_id,
                         amount |-> d.amount.cents, status |-> d.status,
                         date |-> d.date]}
                /\ nextId' = nextId + 1
                /\ writes' = writes + 1
                /\ calls' = [calls EXCEPT ![s].pc = "resume", ![s].dbres = res,
                                          ![s].newId = nextId,
                                          ![s].trace = Append(@, "persist")]
           ELSE /\ calls' = [calls EXCEPT ![s].pc = "resume", ![s].dbres = res,
                                          ![s].trace = Append(@, "persist_failed")]
                /\ UNCHANGED <<invoices, nextId, writes>>
    /\ last' = NoEvent
    /\ UNCHANGED <<ncalls, revalidations, redirects, listing, revenue>>

\* As UpdateRow, with the date set as createInvoice sets it.
UpdateRowWithDate(r, d) ==
    [r EXCEPT !.customer_id = d.customer_id, !.amount = d.amount.cents,
              !.status = d.status, !.date = Today]

\* The row after update({where: {id}, data: {customer_id, amount, status}}).
UpdateRow(r, d) ==
    [r EXCEPT !.customer_id = d.customer_id, !.amount = d.amount.cents,
              !.status = d.status]

\* The store executes update: customer_id, amount and status of the row are
\* set, or the call throws.
StoreUpdate(s) ==
    /\ calls[s].pc = "store"
    /\ calls[s].op = "update"
    /\ LET d   == calls[s].data
           res == UpdateResult(invoices, calls[s].id, d)
       IN  IF res = "ok"
           THEN /\ invoices' =
                       {IF r.id = calls[s].id THEN UpdateRow(r, d) ELSE r : r \in invoices}
                /\ writes' = writes + 1
                /\ calls' = [calls EXCEPT ![s].pc = "resume", ![s].dbres = res,
                                          ![s].trace = Append(@, "persist")]
           ELSE /\ calls' = [calls EXCEPT ![s].pc = "resume", ![s].dbres = res,
                                          ![s].trace = Append(@, "persist_failed")]
                /\ UNCHANGED <<invoices, writes>>
    /\ last' = NoEvent
    /\ UNCHANGED <<nextId, ncalls, revalidations, redirects, listing, revenue>>

\* The store executes delete: the row is removed, or the call throws.
StoreDelete(s) ==
    /\ calls[s].pc = "store"
    /\ calls[s].op = "delete"
    /\ LET res == DeleteResult(invoices, calls[s].id)
       IN  IF res = "ok"
           THEN /\ invoices' = {r \in invoices : r.id # calls[s].id}
                /\ writes' = writes + 1
                /\ calls' = [calls EXCEPT ![s].pc = "resume", ![s].dbres = res,
                                          ![s].trace = Append(@, "persist")]
           ELSE /\ calls' = [calls EXCEPT ![s].pc = "resume", ![s].dbres = res,
                                          ![s].trace = Append(@, "persist_failed")]
                /\ UNCHANGED <<invoices, writes>>
    /\ last' = NoEvent
    /\ UNCHANGED <<nextId, ncalls, revalidations, redirects, listing, revenue>>

Count(stages, x) == Cardinality({i \in 1..Len(stages) : stages[i] = x})

\* As AfterCreate, without the revalidatePath call.
AfterCreateNoRevalidate(dbres) ==
    IF dbres = "ok"
    THEN [stages |-> <<"redirect">>, ret |-> RedirectRet]
    ELSE [stages |-> <<>>, ret |-> StateRet(NoErrors, CreateDbMsg)]

\* createInvoice after the await: the catch returns the message; otherwise
\* revalidatePath, then redirect.
AfterCreate(dbres) ==
    IF dbres = "ok"
    THEN [stages |-> <<"invalidate", "redirect">>, ret |-> RedirectRet]
    ELSE [stages |-> <<>>, ret |-> StateRet(NoErrors, CreateDbMsg)]

\* updateInvoice after the await.
AfterUpdate(dbres) ==
    IF dbres = "ok"
    THEN [stages |-> <<"invalidate", "redirect">>, ret |-> RedirectRet]
    ELSE [stages |-> <<>>, ret |-> StateRet(NoErrors, UpdateDbMsg)]

\* deleteInvoice after the await: revalidatePath inside the try, no redirect.
AfterDelete(dbres) ==
    IF dbres = "ok"
    THEN [stages |-> <<"invalidate">>, ret |-> VoidRet]
    ELSE [stages |-> <<>>, ret |-> StateRet(NoErrors, DeleteDbMsg)]

After(op, dbres) ==
    IF op = "create" THEN AfterCreate(dbres)
    ELSE IF op = "update" THEN AfterUpdate(dbres)
    ELSE AfterDelete(dbres)

\* The code after the await runs and the call returns.
Resume(s) ==
    /\ calls[s].pc = "resume"
    /\ LET a == After(calls[s].op, calls[s].dbres)
       IN  /\ revalidations' = revalidations + Count(a.stages, "invalidate")
           /\ redirects' = redirects + Count(a.stages, "redirect")
           /\ last' = ReturnEvent(calls[s], a.ret, calls[s].trace \o a.stages)
    /\ calls' = [calls EXCEPT ![s] = Idle]
    /\ UNCHANGED <<invoices, nextId, ncalls, writes, listing, revenue>>

(***************************************************************************)
(* fetchInvoiceById: the Prisma implementation and the raw-SQL one.        *)
(***************************************************************************)
NoRow == [id |-> MissingId, customer_id |-> Null, amount |-> NaN, status |-> Null]

FormOf(r) == [id |-> r.id, customer_id |-> r.customer_id,
              amount |-> DivHundred(r.amount), status |-> r.status]

\* findUnique, then {...invoice, amount: invoice.amount / 100} or null; a
\* store fault is rethrown as "Failed to fetch invoice by ID.".
FetchInvoiceByIdResult(rows, id, fault) ==
    IF fault THEN [kind |-> "throw", row |-> NoRow]
    ELSE IF id \in Ids(rows) THEN [kind |-> "row", row |-> FormOf(RowById(rows, id))]
    ELSE [kind |-> "null", row |-> NoRow]

\* SELECT ... WHERE id, then invoice[0] of the mapped rows; the catch logs
\* the fault and falls through, so the function returns undefined.
FetchInvoiceByIdSqlResult(rows, id, fault) ==
    IF fault THEN [kind |-> "undefined", row |-> NoRow]
    ELSE IF id \in Ids(rows) THEN [kind |-> "row", row |-> FormOf(RowById(rows, id))]
    ELSE [kind |-> "undefined", row |-> NoRow]

FetchInvoiceById(id, fault) ==
    /\ ncalls < MaxCalls
    /\ last' = [ev |-> "lookup", impl |-> "prisma", id |-> id, fault |-> fault,
                ret |-> FetchInvoiceByIdResult(invoices, id, fault)]
    /\ ncalls' = ncalls + 1
    /\ UNCHANGED <<invoices, nextId, calls, writes, revalidations, redirects, listing, revenue>>

FetchInvoiceByIdSql(id, fault) ==
    /\ ncalls < MaxCalls
    /\ last' = [ev |-> "lookup", impl |-> "sql", id |-> id, fault |-> fault,
                ret |-> FetchInvoiceByIdSqlResult(invoices, id, fault)]
    /\ ncalls' = ncalls + 1
    /\ UNCHANGED <<invoices, nextId, calls, writes, revalidations, redirects, listing, revenue>>

(***************************************************************************)
(* The invoice table queries: fetchFilteredInvoices and fetchInvoicesPages *)
(* share one where clause, an OR of five filters.                          *)
(***************************************************************************)
ITEMS_PER_PAGE == 6

\* The queries the model searches for.
Queries == {"", "pend", "PAID", "30", "am", "19.99", "2024-01-02", "zz"}

\* Number(query) of each query.
QueryNumber == [q \in Queries |-> StringToNumber(Chars[q])]

\* The text column values a query is matched against.
FieldValues ==
    {c.name : c \in Customers} \cup {c.email : c \in Customers}
        \cup {"pending", "paid", "draft"}

\* The pairs <<field value, query>> for which { contains: query, mode:
\* "insensitive" } holds.
ContainsPairs == {fq \in FieldValues \X Queries : ContainsInsensitive(fq[1], fq[2])}

Contains(field, q) == <<field, q>> \in ContainsPairs

\* As AmountBranch, with the filter { amount: {} } that an undefined equals
\* leaves matching every row.
AmountBranchEmptyMatchesAll(row, q) ==
    IF QueryNumber[q].nan THEN TRUE ELSE QueryNumber[q].h = 100 * row.amount

\* { amount: { equals: isNaN(Number(query)) ? undefined : Number(query) } }:
\* an undefined equals leaves no condition, and the OR drops the filter.
AmountBranch(row, q) ==
    IF QueryNumber[q].nan THEN FALSE ELSE QueryNumber[q].h = 100 * row.amount

\* The where clause of both queries.
Matches(row, q) ==
    \/ Contains(CustomerOf(row).name, q)
    \/ Contains(CustomerOf(row).email, q)
    \/ AmountBranch(row, q)
    \/ row.date = q
    \/ Contains(row.status, q)

Matching(rows, q) == {r \in rows : Matches(r, q)}

\* The client rejects the where clause when Number(query) is a number the
\* integer amount column cannot hold.
FilterRejected(q) ==
    LET n == QueryNumber[q]
    IN  ~n.nan /\ ~AmountColumnAccepts([cents |-> n.h \div 100, ulp |-> n.h % 100])

\* The values of the date column, and the pairs a < b of them.
DateValues == {"2024-01-01", "2024-01-02", "2024-01-03", "2024-01-04"}

DateLess == {ab \in DateValues \X DateValues : StrLess(ab[1], ab[2])}

RECURSIVE DateDescOrders(_)
\* orderBy: {date: "desc"}: every order of the rows by descending date; the
\* query names no second key, so rows of equal date come in any order.
DateDescOrders(S) ==
    IF S = {} THEN {<<>>}
    ELSE LET top == {r \in S : \A x \in S : <<r.date, x.date>> \notin DateLess}
         IN  UNION {{<<r>> \o o : o \in DateDescOrders(S \ {r})} : r \in top}

Min(a, b) == IF a < b THEN a ELSE b

\* take and skip of findMany.
Slice(o, skip, take) == SubSeq(o, skip + 1, Min(skip + take, Len(o)))

\* The shape fetchFilteredInvoices maps each row to.
View(r) == [id |-> r.id, amount |-> r.amount, date |-> r.date, status |-> r.status,
            name |-> CustomerOf(r).name, email |-> CustomerOf(r).email]

ViewSeq(o) == [i \in 1..Len(o) |-> View(o[i])]

Threw == [kind |-> "throw", rows |-> <<>>]

\* As Offset, for pages counted from 0.
OffsetZeroBased(currentPage) == currentPage * ITEMS_PER_PAGE

\* const offset = (currentPage - 1) * ITEMS_PER_PAGE
Offset(currentPage) == (currentPage - 1) * ITEMS_PER_PAGE

\* The results fetchFilteredInvoices(query, currentPage) can have: the store
\* rejects a negative skip, and any error is rethrown as "Failed to fetch
\* invoices.".
FetchFilteredInvoicesResults(rows, q, currentPage) ==
    IF FilterRejected(q) \/ Offset(currentPage) < 0 THEN {Threw}
    ELSE {[kind |-> "rows",
           rows |-> ViewSeq(Slice(o, Offset(currentPage), ITEMS_PER_PAGE))] :
          o \in DateDescOrders(Matching(rows, q))}

\* Math.ceil(count / ITEMS_PER_PAGE)
CeilDiv(n, d) == (n + d - 1) \div d

\* fetchInvoicesPages(query): the page count, or "Failed to fetch total
\* number of invoices.".
FetchInvoicesPagesResult(rows, q) ==
    IF FilterRejected(q) THEN [kind |-> "throw", n |-> 0]
    ELSE [kind |-> "pages", n |-> CeilDiv(Cardinality(Matching(rows, q)), ITEMS_PER_PAGE)]

NotFetched == [kind |-> "unfetched", rows |-> <<>>]

PageInputs == 0..MaxPage

\* A client asks for the page count of a query and starts paging through it.
FetchInvoicesPages(q) ==
    /\ listing' = [query |-> q,
                   total |-> FetchInvoicesPagesResult(invoices, q),
                   pages |-> [p \in PageInputs |-> NotFetched]]
    /\ UNCHANGED <<invoices, nextId, calls, ncalls, writes, revalidations, redirects, last, revenue>>

\* The client fetches one page of the query.
FetchFilteredInvoices(currentPage) ==
    /\ listing.query # Null
    /\ \E res \in FetchFilteredInvoicesResults(invoices, listing.query, currentPage) :
           listing' = [listing EXCEPT !.pages[currentPage] = res]
    /\ UNCHANGED <<invoices, nextId, calls, ncalls, writes, revalidations, redirects, last, revenue>>

\* The invoices a seeded table holds when the queries run.
QuerySeed ==
    { [id |-> 1, customer_id |-> "c1", amount |-> 30,   status |-> "pending", date |-> "2024-01-04"],
      [id |-> 2, customer_id |-> "c2", amount |-> 2050, status |-> "pending", date |-> "2024-01-04"],
      [id |-> 3, customer_id |-> "c1", amount |-> 500,  status |-> "pending", date |-> "2024-01-03"],
      [id |-> 4, customer_id |-> "c1", amount |-> 30,   status |-> "paid",    date |-> "2024-01-03"],
      [id |-> 5, customer_id |-> "c2", amount |-> 30,   status |-> "pending", date |-> "2024-01-02"],
      [id |-> 6, customer_id |-> "c1", amount |-> 500,  status |-> "pending", date |-> "2024-01-02"],
      [id |-> 7, customer_id |-> "c1", amount |-> 2050, status |-> "pending", date |-> "2024-01-01"],
      [id |-> 8, customer_id |-> "c2", amount |-> 500,  status |-> "pending", date |-> "2024-01-01"] }

NoListing == [query |-> Null, total |-> [kind |-> "none", n |-> 0],
              pages |-> [p \in PageInputs |-> NotFetched]]

(***************************************************************************)
(* authenticate: signIn is the identity-verification collaborator; it      *)
(* resolves, or rejects with an Error whose message the catch inspects.    *)
(***************************************************************************)
Undefined == "<undefined>"

\* The messages of the errors signIn rejects with in the model.
ErrorMessages ==
    {"CredentialsSignin", "Sign in failed: CredentialsSignin.", "credentialssignin",
     "CredentialSignin", "NEXT_REDIRECT", "CallbackRouteError", ""}

SignInOutcomes ==
    {[kind |-> "resolve", message |-> Null]}
        \cup {[kind |-> "reject", message |-> m] : m \in ErrorMessages}

\* As AuthenticateResult, with a catch that returns the sentinel for every
\* error.
AuthenticateResultAnyError(outcome) ==
    IF outcome.kind = "resolve"
    THEN [kind |-> "return", value |-> Undefined, error |-> Null]
    ELSE [kind |-> "return", value |-> "CredentialSignin", error |-> Null]

\* try { await signIn(...) } catch (error) { if (error.message.includes(
\* "CredentialsSignin")) return "CredentialSignin"; throw error; }
AuthenticateResult(outcome) ==
    IF outcome.kind = "resolve"
    THEN [kind |-> "return", value |-> Undefined, error |-> Null]
    ELSE IF IsSubstring(Chars["CredentialsSignin"], Chars[outcome.message])
         THEN [kind |-> "return", value |-> "CredentialSignin", error |-> Null]
         ELSE [kind |-> "throw", value |-> Undefined, error |-> outcome.message]

Authenticate(outcome) ==
    /\ last' = [ev |-> "authenticate", outcome |-> outcome,
                ret |-> AuthenticateResult(outcome)]
    /\ UNCHANGED <<invoices, nextId, calls, ncalls, writes, revalidations, redirects,
                   listing, revenue>>

(***************************************************************************)
(* fetchCardData: the invoice count, the customer count and the amounts    *)
(* summed by status, the sums formatted by formatCurrency.                 *)
(***************************************************************************)
\* A number, or undefined.
Defined(n) == [def |-> TRUE, v |-> n]

UndefinedNumber == [def |-> FALSE, v |-> 0]

RECURSIVE NatDigits(_)
\* The decimal digits of a natural number.
NatDigits(n) ==
    IF n < 10 THEN <<Digits[n + 1]>>
    ELSE Append(NatDigits(n \div 10), Digits[(n % 10) + 1])

RECURSIVE Grouped(_)
\* Digits in groups of three, separated by commas.
Grouped(ds) ==
    IF Len(ds) <= 3 THEN ds
    ELSE Grouped(SubSeq(ds, 1, Len(ds) - 3)) \o <<",">>
             \o SubSeq(ds, Len(ds) - 2, Len(ds))

\* formatCurrency(amount): the amount in cents as US dollars, "$1,234.56";
\* an amount that is undefined divides to NaN and formats as "$NaN".
FormatCurrency(x) ==
    IF ~x.def THEN <<"$", "N", "a", "N">>
    ELSE LET a == IF x.v < 0 THEN 0 - x.v ELSE x.v
         IN  (IF x.v < 0 THEN <<"-">> ELSE <<>>) \o <<"$">>
                 \o Grouped(NatDigits(a \div 100)) \o <<".">>
                 \o <<Digits[((a % 100) \div 10) + 1], Digits[(a % 10) + 1]>>

RECURSIVE SumAmounts(_)
SumAmounts(rows) ==
    IF rows = {} THEN 0
    ELSE LET r == CHOOSE x \in rows : TRUE
         IN  r.amount + SumAmounts(rows \ {r})

\* prisma.invoice.groupBy({by: ["status"], _sum: {amount: true}}): one group
\* for every status some invoice has.
GroupByStatus(rows) ==
    { [status |-> st, sum |-> SumAmounts({r \in rows : r.status = st})] :
          st \in {r.status : r \in rows} }

\* invoiceStatuses.find((s) => s.status === status)?._sum.amount
FindSum(groups, status) ==
    IF \E g \in groups : g.status = status
    THEN Defined((CHOOSE g \in groups : g.status = status).sum)
    ELSE UndefinedNumber

\* As CardTotal, without the ?? 0 default.
CardTotalNoDefault(groups, status) == FormatCurrency(FindSum(groups, status))

\* formatCurrency(invoiceStatuses.find(...)?._sum.amount ?? 0)
CardTotal(groups, status) ==
    LET sum == FindSum(groups, status)
    IN  FormatCurrency(IF sum.def THEN sum ELSE Defined(0))

NoCardData == [kind |-> "throw", numberOfCustomers |-> 0, numberOfInvoices |-> 0,
               totalPaidInvoices |-> <<>>, totalPendingInvoices |-> <<>>]

\* fetchCardData: a fault of one of the three queries is rethrown as "Failed
\* to fetch card data.".
FetchCardDataResult(rows, fault) ==
    IF fault THEN NoCardData
    ELSE LET invoiceStatuses == GroupByStatus(rows)
         IN  [kind                 |-> "value",
              numberOfCustomers    |-> Cardinality(Customers),
              numberOfInvoices     |-> Cardinality(rows),
              totalPaidInvoices    |-> CardTotal(invoiceStatuses, "paid"),
              totalPendingInvoices |-> CardTotal(invoiceStatuses, "pending")]

FetchCardData(fault) ==
    /\ last' = [ev |-> "card", fault |-> fault,
                ret |-> FetchCardDataResult(invoices, fault)]
    /\ UNCHANGED <<invoices, nextId, calls, ncalls, writes, revalidations, redirects,
                   listing, revenue>>

(***************************************************************************)
(* The Revenue table: rows [month, revenue], one per month, written by the *)
(* seed script only.                                                       *)
(***************************************************************************)
Months == <<"Jan", "Feb", "Mar">>

SeedRevenue ==
    { [month |-> "Jan", revenue |-> 2000],
      [month |-> "Feb", revenue |-> 1800],
      [month |-> "Mar", revenue |-> 2200] }

\* The place of a month in the year.
MonthIndex(m) == CHOOSE i \in 1..Len(Months) : Months[i] = m

RECURSIVE RowOrders(_)
\* Every order in which a store can return the rows of a table when the
\* query names none.
RowOrders(S) ==
    IF S = {} THEN {<<>>}
    ELSE UNION { {<<r>> \o o : o \in RowOrders(S \ {r})} : r \in S }

\* fetchRevenue: prisma.revenue.findMany() with no orderBy, returned as the
\* store gives it; a store fault is rethrown as "Failed to fetch revenue
\* data.".
FetchRevenueResults(rows, fault) ==
    IF fault THEN {[kind |-> "throw", rows |-> <<>>]}
    ELSE {[kind |-> "rows", rows |-> o] : o \in RowOrders(rows)}

FetchRevenue(fault) ==
    /\ \E res \in FetchRevenueResults(revenue, fault) :
           last' = [ev |-> "revenue", fault |-> fault, ret |-> res]
    /\ UNCHANGED <<invoices, nextId, calls, ncalls, writes, revalidations, redirects,
                   listing, revenue>>

Init ==
    /\ invoices = SeedInvoices
    /\ nextId = 3
    /\ calls = [s \in Slots |-> Idle]
    /\ ncalls = 0
    /\ writes = 0
    /\ revalidations = 0
    /\ redirects = 0
    /\ last = NoEvent
    /\ listing = NoListing
    /\ revenue = SeedRevenue

Next ==
    \/ \E form \in Forms : CreateInvoice(form)
    \/ \E id \in IdInputs, form \in Forms : UpdateInvoice(id, form)
    \/ \E id \in IdInputs : DeleteInvoice(id)
    \/ \E s \in Slots : StoreCreate(s)
    \/ \E s \in Slots : StoreUpdate(s)
    \/ \E s \in Slots : StoreDelete(s)
    \/ \E s \in Slots : Resume(s)
    \/ \E id \in IdInputs, fault \in BOOLEAN : FetchInvoiceById(id, fault)
    \/ \E id \in IdInputs, fault \in BOOLEAN : FetchInvoiceByIdSql(id, fault)

Spec == Init /\ [][Next]_vars

NoneInFlight == \A s \in Slots : calls[s].pc = "idle"

\* One request at a time, with every form input.
NextForms ==
    \/ \E form \in AllForms : NoneInFlight /\ CreateInvoice(form)
    \/ \E id \in IdInputs, form \in AllForms : NoneInFlight /\ UpdateInvoice(id, form)
    \/ \E s \in Slots : StoreCreate(s)
    \/ \E s \in Slots : StoreUpdate(s)
    \/ \E s \in Slots : Resume(s)

SpecForms == Init /\ [][NextForms]_vars

\* The tables the queries run on: the seeded invoices without some of the
\* rows 1, 2, 5 and 8 (deleted since), and the empty table.
QueryTables ==
    {QuerySeed \ D : D \in SUBSET {r \in QuerySeed : r.id \in {1, 2, 5, 8}}} \cup {{}}

InitQuery ==
    /\ invoices \in QueryTables
    /\ nextId = 9
    /\ calls = [s \in Slots |-> Idle]
    /\ ncalls = 0
    /\ writes = 0
    /\ revalidations = 0
    /\ redirects = 0
    /\ last = NoEvent
    /\ listing = NoListing
    /\ revenue = SeedRevenue

NextQuery ==
    \/ \E q \in Queries : FetchInvoicesPages(q)
    \/ \E p \in PageInputs : FetchFilteredInvoices(p)

SpecQuery == InitQuery /\ [][NextQuery]_vars

\* The Revenue tables the reads run on: the seeded months, or some of them.
RevenueTables == SUBSET SeedRevenue

\* The Invoice tables the reads run on.
CardSeed ==
    SeedInvoices \cup
        { [id |-> 3, customer_id |-> "c1", amount |-> 123456, status |-> "paid",
           date |-> "2024-01-03"] }

CardTables == SUBSET CardSeed

InitReads ==
    /\ invoices \in CardTables
    /\ nextId = 4
    /\ calls = [s \in Slots |-> Idle]
    /\ ncalls = 0
    /\ writes = 0
    /\ revalidations = 0
    /\ redirects = 0
    /\ last = NoEvent
    /\ listing = NoListing
    /\ revenue \in RevenueTables

NextReads ==
    \/ \E outcome \in SignInOutcomes : Authenticate(outcome)
    \/ \E fault \in BOOLEAN : FetchCardData(fault)
    \/ \E fault \in BOOLEAN : FetchRevenue(fault)

SpecReads == InitReads /\ [][NextReads]_vars

(***************************************************************************)
(* Claims about validation, checked with every form input (SpecForms).     *)
(***************************************************************************)
\* The value coerces to a number that is <= 0 (a missing amount coerces to 0).
AmountNonPositive(v) == ~ToNumber(v).nan /\ ToNumber(v).h <= 0

\* The step just taken returned nothing to a caller of createInvoice or
\* updateInvoice except through last', and left store and collaborators alone.
NoEffect ==
    /\ invoices' = invoices
    /\ nextId' = nextId
    /\ writes' = writes
    /\ revalidations' = revalidations
    /\ redirects' = redirects

\* C1: a createInvoice or updateInvoice call whose amount coerces to a number
\* <= 0 (a missing amount included) returns an error state whose
\* errors.amount holds "Please enter an amount greater than $0.", right after
\* validation, and the step leaves the store, the invalidations and the
\* redirects as they were.
C1_NonPositiveAmountRejected ==
    [][ ( /\ last'.ev = "return"
          /\ last'.op \in {"create", "update"}
          /\ AmountNonPositive(last'.form.amount) )
        => ( /\ last'.ret.kind = "state"
             /\ \E i \in DOMAIN last'.ret.errors.amount :
                    last'.ret.errors.amount[i] = AmountMsg
             /\ last'.trace = <<"validate">>
             /\ NoEffect ) ]_vars

C1_Witness ==
    /\ last.ev = "return"
    /\ last.op = "update"
    /\ last.form = Form("c1", Null, "paid")
    /\ last.ret.errors.amount = <<AmountMsg>>
    /\ last.ret.errors.status = <<>>

\* C2: a createInvoice or updateInvoice call whose status is not exactly
\* "pending" or "paid" (a missing status included) returns a validation error
\* state (the validation message of the action and a status error), and the
\* step leaves the store as it was.
C2_BadStatusRejected ==
    [][ ( /\ last'.ev = "return"
          /\ last'.op \in {"create", "update"}
          /\ last'.form.status \notin {"pending", "paid"} )
        => ( /\ last'.ret.kind = "state"
             /\ last'.ret.errors.status # <<>>
             /\ last'.ret.message =
                    (IF last'.op = "create" THEN CreateValidationMsg
                     ELSE UpdateValidationMsg)
             /\ last'.dbres = "none"
             /\ NoEffect ) ]_vars

C2_Witness ==
    /\ last.ev = "return"
    /\ last.op = "create"
    /\ last.form = Form("c1", "30", "draft")
    /\ last.ret.errors = [NoErrors EXCEPT !.status = <<EnumMsg>>]

(***************************************************************************)
(* Claims about the mutation actions under interleaving (Spec).            *)
(***************************************************************************)
\* C6: deleteInvoice(id) for an id that matches no row: the store throws and
\* leaves the table as it was, and the call returns {message: "Database
\* Error: Failed to Delete Invoice."} as a value, without invalidating.
C6_DeleteMissingId ==
    [][ /\ \A s \in Slots :
              ( /\ calls[s].pc = "store"
                /\ calls[s].op = "delete"
                /\ calls'[s].pc = "resume"
                /\ calls[s].id \notin Ids(invoices) )
              => ( /\ calls'[s].dbres = "notfound"
                   /\ invoices' = invoices
                   /\ writes' = writes )
        /\ ( /\ last'.ev = "return"
             /\ last'.op = "delete"
             /\ last'.dbres = "notfound" )
           => ( /\ last'.ret = StateRet(NoErrors, DeleteDbMsg)
                /\ last'.trace = <<"persist_failed">>
                /\ NoEffect ) ]_vars

C6_Witness ==
    /\ last.ev = "return"
    /\ last.op = "delete"
    /\ last.id = MissingId
    /\ last.ret.message = DeleteDbMsg
    /\ invoices = SeedInvoices

SuccessTrace == <<"validate", "persist", "invalidate", "redirect">>

\* C7: the stages of an action run in the order validate, persist,
\* invalidate, redirect: every store write that succeeded is followed by
\* exactly one invalidation (pending only while the call has not resumed),
\* no invalidation happens without one, a redirect only follows the
\* invalidation of createInvoice / updateInvoice, and deleteInvoice never
\* redirects.
C7_StageOrder ==
    /\ writes = revalidations
                + Cardinality({s \in Slots : calls[s].pc = "resume" /\ calls[s].dbres = "ok"})
    /\ redirects <= revalidations
    /\ last.ev = "return" =>
         /\ last.op \in {"create", "update"} =>
              /\ last.trace \in {<<"validate">>, <<"validate", "persist_failed">>, SuccessTrace}
              /\ (last.ret.kind = "redirect") = (last.trace = SuccessTrace)
              /\ (last.dbres = "ok") = (last.trace = SuccessTrace)
         /\ last.op = "delete" =>
              /\ last.trace \in {<<"persist_failed">>, <<"persist", "invalidate">>}
              /\ last.ret.kind # "redirect"
              /\ (last.dbres = "ok") = (last.trace = <<"persist", "invalidate">>)

C7_Witness ==
    /\ last.ev = "return"
    /\ last.op = "create"
    /\ last.trace = SuccessTrace
    /\ writes = 2
    /\ revalidations = 1
    /\ redirects = 1

\* C8: when the store write of createInvoice or updateInvoice fails (an
\* update whose id matches no row fails), the table is as it was, and the
\* call returns the action's "Database Error: ..." message as a value, with no
\* invalidation and no redirect.
C8_WriteFailure ==
    [][ /\ \A s \in Slots :
              ( /\ calls[s].pc = "store"
                /\ calls[s].op \in {"create", "update"}
                /\ calls'[s].pc = "resume" )
              => ( /\ (calls[s].op = "update" /\ calls[s].id \notin Ids(invoices))
                         => calls'[s].dbres # "ok"
                   /\ calls'[s].dbres # "ok"
                         => (invoices' = invoices /\ writes' = writes /\ nextId' = nextId) )
        /\ ( /\ last'.ev = "return"
             /\ last'.op \in {"create", "update"}
             /\ last'.dbres \notin {"ok", "none"} )
           => ( /\ last'.ret = StateRet(NoErrors, IF last'.op = "create" THEN CreateDbMsg
                                                  ELSE UpdateDbMsg)
                /\ last'.trace = <<"validate", "persist_failed">>
                /\ NoEffect ) ]_vars

C8_Witness ==
    /\ last.ev = "return"
    /\ last.op = "update"
    /\ last.id = MissingId
    /\ last.dbres = "notfound"
    /\ last.ret.message = UpdateDbMsg
    /\ revalidations = 0

\* C4: a createInvoice call with a valid amount a for an existing customer
\* (the only call so far) persists an invoice whose amount is the integer
\* a * 100, and fetchInvoiceById on it returns the amount a.
C4_AmountRoundTrip ==
    ( /\ last.ev = "return"
      /\ last.op = "create"
      /\ ncalls = 1
      /\ SafeParse(last.form).success
      /\ last.form.customer_id \in CustomerIds )
    => ( /\ last.ret.kind = "redirect"
         /\ \E r \in invoices :
               /\ r.id = last.newId
               /\ r.amount = ToNumber(last.form.amount).h
               /\ FetchInvoiceByIdResult(invoices, r.id, FALSE).row.amount
                      = ToNumber(last.form.amount) )

\* C10: fetchInvoiceById(id) for an id that matches no invoice returns a
\* not-found value (null / undefined) and does not throw, and a not-found
\* value is returned only for absence: a store fault is reported otherwise.
C10_NotFoundIsNotAFault ==
    last.ev = "lookup" =>
        /\ (~last.fault /\ last.id \notin Ids(invoices))
               => last.ret.kind \in {"null", "undefined"}
        /\ last.ret.kind \in {"null", "undefined"} => ~last.fault

\* The invoice is in the first page of the unfiltered invoice list, whatever
\* order the store gives rows of equal date.
Visible(id) ==
    \A res \in FetchFilteredInvoicesResults(invoices, "", 1) :
        /\ res.kind = "rows"
        /\ \E i \in DOMAIN res.rows : res.rows[i].id = id

\* C9: a createInvoice call with valid input for an existing customer that
\* ran concurrently with a createInvoice call for a different existing
\* customer succeeds, and its invoice is in the store and in the result of
\* a fetchFilteredInvoices call that follows.
C9_ConcurrentCreates ==
    ( /\ last.ev = "return"
      /\ last.op = "create"
      /\ SafeParse(last.form).success
      /\ last.form.customer_id \in CustomerIds
      /\ \E c \in last.peers : c \in CustomerIds /\ c # last.form.customer_id )
    => ( /\ last.ret.kind = "redirect"
         /\ last.newId \in Ids(invoices)
         /\ Visible(last.newId) )

(***************************************************************************)
(* Claims about the invoice table queries (SpecQuery).                     *)
(***************************************************************************)
RECURSIVE ConcatPages(_, _, _)
\* The rows of pages a..b of the listing, one page after the other.
ConcatPages(pages, a, b) ==
    IF a > b THEN <<>> ELSE pages[a].rows \o ConcatPages(pages, a + 1, b)

IsDateDesc(rs) ==
    \A i \in 1..(Len(rs) - 1) : <<rs[i].date, rs[i + 1].date>> \notin DateLess

\* rs holds every row of S exactly once.
ExactlyOnce(rs, S) ==
    /\ Len(rs) = Cardinality(S)
    /\ {rs[i].id : i \in DOMAIN rs} = Ids(S)

Occurrences(rs, id) == Cardinality({i \in DOMAIN rs : rs[i].id = id})

\* C3 as stated, for a query whose page count was fetched: the count is
\* ceil(M / 6), and once the pages 0 .. count - 1 were fetched, no call has
\* failed and their concatenation is every matching invoice exactly once, by
\* descending date.
C3_ZeroIndexedPages ==
    (listing.query # Null /\ listing.total.kind = "pages") =>
        LET n == listing.total.n
            M == Matching(invoices, listing.query)
        IN  /\ n = CeilDiv(Cardinality(M), ITEMS_PER_PAGE)
            /\ (\A p \in 0..(n - 1) : listing.pages[p].kind # "unfetched") =>
                   /\ \A p \in 0..(n - 1) : listing.pages[p].kind = "rows"
                   /\ ExactlyOnce(ConcatPages(listing.pages, 0, n - 1), M)
                   /\ IsDateDesc(ConcatPages(listing.pages, 0, n - 1))

\* C3, amended: fetchInvoicesPages(query) is ceil(M / 6), unless the query is
\* a number that is no integer, and then both functions fail; no call for a
\* page 1 .. fetchInvoicesPages(query) fails, and the concatenation of these
\* pages is M matching invoices by descending date, in which every matching
\* invoice whose date no other matching invoice has occurs exactly once; it
\* is every matching invoice exactly once when the calls got the invoices of
\* equal date in one and the same order.
C3_OneIndexedPages ==
    listing.query # Null =>
        LET n   == listing.total.n
            M   == Matching(invoices, listing.query)
            all == ConcatPages(listing.pages, 1, n)
        IN  IF listing.total.kind = "throw"
            THEN /\ QueryNumber[listing.query].h % 100 # 0
                 /\ \A p \in PageInputs : listing.pages[p].kind \in {"unfetched", "throw"}
            ELSE /\ n = CeilDiv(Cardinality(M), ITEMS_PER_PAGE)
                 /\ n <= MaxPage
                 /\ \A p \in 1..n : listing.pages[p].kind # "throw"
                 /\ (\A p \in 1..n : listing.pages[p].kind = "rows") =>
                        /\ Len(all) = Cardinality(M)
                        /\ \A i \in DOMAIN all : all[i] \in {View(r) : r \in M}
                        /\ IsDateDesc(all)
                        /\ \A r \in M :
                               (\A x \in M : x.date = r.date => x = r)
                                   => Occurrences(all, r.id) = 1
                        /\ (\E o \in DateDescOrders(M) :
                               \A p \in 1..n :
                                   listing.pages[p].rows
                                       = ViewSeq(Slice(o, (p - 1) * ITEMS_PER_PAGE,
                                                       ITEMS_PER_PAGE)))
                               => ExactlyOnce(all, M)

C3_Witness ==
    /\ listing.query = ""
    /\ invoices = QuerySeed
    /\ listing.total = [kind |-> "pages", n |-> 2]
    /\ listing.pages[1].kind = "rows"
    /\ listing.pages[2].kind = "rows"
    /\ Len(listing.pages[1].rows) = 6
    /\ Len(listing.pages[2].rows) = 2
    /\ ExactlyOnce(ConcatPages(listing.pages, 1, 2), QuerySeed)

\* The name, email, status and date filters of the query.
TextMatch(r, q) ==
    \/ Contains(CustomerOf(r).name, q)
    \/ Contains(CustomerOf(r).email, q)
    \/ Contains(r.status, q)
    \/ r.date = q

\* The invoices the claim says a query finds: a text match, or the amount
\* equal to the number the query parses as.
ExpectedMatches(q) ==
    LET n == StringToNumber(Chars[q])
    IN  {r \in invoices : TextMatch(r, q) \/ (~n.nan /\ n.h = 100 * r.amount)}

\* C5: the amount filter matches an invoice exactly when the query parses as
\* a number and the amount equals it: the page count and the rows of every
\* page are those of the invoices that match by name, email, date or status,
\* or, for a query that is a number, by amount.
C5_AmountFilter ==
    (listing.query # Null /\ listing.total.kind = "pages") =>
        LET E == ExpectedMatches(listing.query)
        IN  /\ listing.total.n = CeilDiv(Cardinality(E), ITEMS_PER_PAGE)
            /\ \A p \in PageInputs :
                   listing.pages[p].kind = "rows" =>
                       \A i \in DOMAIN listing.pages[p].rows :
                           listing.pages[p].rows[i].id \in Ids(E)
            /\ (listing.pages[1].kind = "rows" /\ Cardinality(E) <= ITEMS_PER_PAGE) =>
                   {listing.pages[1].rows[i].id : i \in DOMAIN listing.pages[1].rows} = Ids(E)

C5_Witness ==
    /\ listing.query = "30"
    /\ Ids(invoices) = {3, 4, 6, 7}
    /\ listing.pages[1].kind = "rows"
    /\ Len(listing.pages[1].rows) = 1
    /\ listing.pages[1].rows[1].id = 4
    /\ listing.pages[1].rows[1].amount = 30

(***************************************************************************)
(* Claims about the effect of the mutations on the Invoice table (Spec).   *)
(***************************************************************************)
\* C12: the store update of an updateInvoice(id, form) call that succeeds
\* replaces the invoice with that id by one with the same id and date and
\* the form's customer_id, amount x 100 and status, and leaves every other
\* invoice as it is; the step in which an updateInvoice call returns changes
\* no invoice.
C12_UpdateFrame ==
    [][ /\ \A s \in Slots :
               ( /\ calls[s].op = "update"
                 /\ calls[s].pc = "store"
                 /\ calls'[s].pc = "resume"
                 /\ calls'[s].dbres = "ok" )
               => /\ calls[s].id \in Ids(invoices)
                  /\ LET f   == calls[s].form
                         old == RowById(invoices, calls[s].id)
                     IN  invoices' = (invoices \ {old}) \cup
                             {[id          |-> old.id,
                               date        |-> old.date,
                               customer_id |-> f.customer_id,
                               amount      |-> StringToNumber(Chars[f.amount]).h,
                               status      |-> f.status]}
        /\ (last'.ev = "return" /\ last'.op = "update") => invoices' = invoices
      ]_vars

C12_Witness ==
    /\ last.ev = "return"
    /\ last.op = "update"
    /\ last.id = 1
    /\ last.form = Form("c2", "30", "paid")
    /\ last.ret = RedirectRet
    /\ invoices =
           { [id |-> 1, customer_id |-> "c2", amount |-> 3000, status |-> "paid",
              date |-> "2024-01-01"],
             [id |-> 2, customer_id |-> "c2", amount |-> 2050, status |-> "paid",
              date |-> "2024-01-02"] }

\* C13: after any createInvoice, updateInvoice and deleteInvoice calls on the
\* seeded store, every stored invoice has an amount above 0, the status
\* pending or paid and the customer_id of an existing customer.
C13_StoreInvariant ==
    \A r \in invoices :
        /\ r.amount > 0
        /\ r.status \in {"pending", "paid"}
        /\ \E c \in Customers : c.id = r.customer_id

C13_Witness ==
    /\ writes = 2
    /\ \E r \in invoices : r.id = 3 /\ r.amount = 3000 /\ r.date = Today
    /\ \E r \in invoices : r.id = 1 /\ r.status = "paid" /\ r.customer_id = "c2"
    /\ \A s \in Slots : calls[s].pc = "idle"

\* Two updateInvoice calls for the same existing invoice, both with valid
\* input for an existing customer, are in flight in slots s and t.
UpdatesOverlap(s, t) ==
    /\ s # t
    /\ calls[s].op = "update"
    /\ calls[t].op = "update"
    /\ calls[s].id = calls[t].id
    /\ calls[s].id \in Ids(invoices)
    /\ calls[s].form.customer_id \in CustomerIds
    /\ calls[t].form.customer_id \in CustomerIds

\* The invoice has the customer_id, amount x 100 and status of the form.
HasFieldsOf(r, form) ==
    /\ r.customer_id = form.customer_id
    /\ r.amount = StringToNumber(Chars[form.amount]).h
    /\ r.status = form.status

\* C14: while two updateInvoice calls with valid input for the same invoice
\* are in flight, the store update of each succeeds and leaves the invoice
\* with the customer_id, amount and status of that call alone (so the
\* invoice ends as the update applied last made it), and a call that
\* returns meanwhile returns the redirect, not an error.
C14_ConcurrentUpdates ==
    [][ \A s, t \in Slots :
            UpdatesOverlap(s, t) =>
                /\ (calls[s].pc = "store" /\ calls'[s].pc = "resume") =>
                       /\ calls'[s].dbres = "ok"
                       /\ \E r \in invoices' :
                              r.id = calls[s].id /\ HasFieldsOf(r, calls[s].form)
                /\ (calls[s].pc = "resume" /\ calls'[s].pc = "idle") =>
                       last'.ret = RedirectRet
      ]_vars

(***************************************************************************)
(* Claims about authenticate, fetchCardData and fetchRevenue (SpecReads).  *)
(***************************************************************************)
\* The error messages of the model that carry the credential-mismatch
\* signature.
SignatureMessages == {"CredentialsSignin", "Sign in failed: CredentialsSignin."}

\* C11: authenticate returns the sentinel "CredentialSignin" exactly when
\* signIn rejects with an error that carries the credential-mismatch
\* signature; every other error is thrown on to the caller as it is, and a
\* signIn that resolves returns nothing.
C11_AuthenticateSentinel ==
    last.ev = "authenticate" =>
        LET o == last.outcome
            mismatch == o.kind = "reject" /\ o.message \in SignatureMessages
        IN  /\ (last.ret.kind = "return" /\ last.ret.value = "CredentialSignin") <=> mismatch
            /\ (o.kind = "reject" /\ ~mismatch) =>
                   (last.ret.kind = "throw" /\ last.ret.error = o.message)
            /\ o.kind = "resolve" =>
                   (last.ret.kind = "return" /\ last.ret.value = Undefined)

C11_Witness ==
    /\ last.ev = "authenticate"
    /\ last.outcome = [kind |-> "reject", message |-> "Sign in failed: CredentialsSignin."]
    /\ last.ret.kind = "return"
    /\ last.ret.value = "CredentialSignin"

\* C15: fetchCardData on a store with no invoices returns numberOfInvoices
\* 0 and both totals as the currency formatting of 0; on any store the call
\* returns, with the count of the invoices, and a status that no invoice has
\* gets the currency formatting of 0 as its total.
C15_CardDataEmpty ==
    (last.ev = "card" /\ ~last.fault) =>
        /\ last.ret.kind = "value"
        /\ last.ret.numberOfInvoices = Cardinality(invoices)
        /\ invoices = {} =>
               /\ last.ret.numberOfInvoices = 0
               /\ last.ret.totalPaidInvoices = FormatCurrency(Defined(0))
               /\ last.ret.totalPendingInvoices = FormatCurrency(Defined(0))
        /\ (\A r \in invoices : r.status # "paid") =>
               last.ret.totalPaidInvoices = FormatCurrency(Defined(0))
        /\ (\A r \in invoices : r.status # "pending") =>
               last.ret.totalPendingInvoices = FormatCurrency(Defined(0))

C15_Witness ==
    /\ last.ev = "card"
    /\ invoices = {}
    /\ last.ret.kind = "value"
    /\ last.ret.numberOfInvoices = 0
    /\ last.ret.totalPaidInvoices = <<"$", "0", ".", "0", "0">>
    /\ last.ret.totalPendingInvoices = <<"$", "0", ".", "0", "0">>

\* C16: fetchRevenue returns the rows of the Revenue table, each once, as a
\* sequence ordered by month, whatever the table holds and in whatever
\* order the store returns the rows.
C16_RevenueOrderedByMonth ==
    (last.ev = "revenue" /\ ~last.fault) =>
        LET rs == last.ret.rows
        IN  /\ last.ret.kind = "rows"
            /\ Len(rs) = Cardinality(revenue)
            /\ {rs[i] : i \in DOMAIN rs} = revenue
            /\ \A i, j \in DOMAIN rs :
                   i < j => MonthIndex(rs[i].month) < MonthIndex(rs[j].month)

====
